---- MODULE Spec2Model ----
(***************************************************************************)
(* A model of Pyrr's aambb.py, quaternion.py and ray.py, and of the        *)
(* ray_intersect_aabb its geometric tests call.                            *)
(*                                                                         *)
(* Numbers.  The code computes in double precision; the model computes     *)
(* exactly, over the numbers (n/d)*sqrt(r) with n, d integers, d > 0 and   *)
(* r a square-free positive integer, kept in the normal form <<n, d, r>>.  *)
(* These are closed under the products, quotients and square roots of      *)
(* sums of squares the code takes, and under the sums it takes on the      *)
(* inputs enumerated here.  <<0, 0, 0>> stands for a NaN/inf result.       *)
(*                                                                         *)
(* Calls.  A Python call either returns a value or raises; an operator     *)
(* modelling a function yields [err, ret] (and out, the array the call     *)
(* wrote, for the functions taking an output buffer).  err = "none" is a   *)
(* normal return.                                                          *)
(***************************************************************************)
EXTENDS Integers, Sequences, FiniteSets, TLC

VARIABLES
    points,   \* aambb: the caller's list of points
    aabbs,    \* aambb: the caller's list of AABBs
    buf,      \* aambb: the caller's output array
    outArg,   \* aambb: whether the last call was passed out = buf
    op,       \* name of the last call made ("init" before any)
    args,     \* arguments of the last call
    ret,      \* value the last call returned
    err,      \* exception the last call raised, "none" when it returned
    debug,    \* Python's __debug__: assert statements are executed
    q1, q2,   \* quaternion: the caller's two quaternions
    v,        \* quaternion: the caller's vector
    eulers,   \* quaternion: the caller's Euler angles [ yaw, pitch, roll ]
    res       \* quaternion: results the caller has kept, by name

vars ==
    <<points, aabbs, buf, outArg, op, args, ret, err, debug, q1, q2, v, eulers, res>>

\* Python's None; every number and every written array is a non-empty tuple
None == <<>>

(***************************************************************************)
(* Exact arithmetic                                                        *)
(***************************************************************************)
Abs(i) == IF i < 0 THEN -i ELSE i

Sgn(i) == IF i < 0 THEN -1 ELSE IF i = 0 THEN 0 ELSE 1

RECURSIVE Gcd(_, _)
Gcd(a, b) == IF b = 0 THEN a ELSE Gcd(b, a % b)

\* the largest s in lo..hi with s*s <= n, by bisection
RECURSIVE Isqrt(_, _, _)
Isqrt(n, lo, hi) ==
    IF lo = hi THEN lo
    ELSE LET mid == (lo + hi + 1) \div 2
         IN  IF mid * mid <= n THEN Isqrt(n, mid, hi) ELSE Isqrt(n, lo, mid - 1)

\* the largest s with s*s dividing n, for n >= 1
SquarePart(n) ==
    LET S == { t \in 1..Isqrt(n, 0, 46340) : n % (t * t) = 0 }
    IN  CHOOSE s \in S : \A t \in S : t <= s

NaN == <<0, 0, 0>>

IsNaN(a) == a[2] = 0

\* the normal form of (n/d)*sqrt(r), r >= 0
Num(n, d, r) ==
    IF d = 0 THEN NaN
    ELSE IF n = 0 \/ r = 0 THEN <<0, 1, 1>>
    ELSE LET s  == SquarePart(r)
             nn == n * s * Sgn(d)
             dd == Abs(d)
             g  == Gcd(Abs(nn), dd)
         IN  <<nn \div g, dd \div g, r \div (s * s)>>

Whole(k) == <<k, 1, 1>>

Frac(n, d) == Num(n, d, 1)

NNeg(a) == IF IsNaN(a) THEN NaN ELSE <<-a[1], a[2], a[3]>>

NAbs(a) == IF IsNaN(a) THEN NaN ELSE <<Abs(a[1]), a[2], a[3]>>

NMul(a, b) ==
    IF IsNaN(a) \/ IsNaN(b) THEN NaN
    ELSE Num(a[1] * b[1], a[2] * b[2], a[3] * b[3])

\* a / b; a division by zero yields NaN/inf
NDiv(a, b) ==
    IF IsNaN(a) \/ IsNaN(b) \/ b[1] = 0 THEN NaN
    ELSE Num(a[1] * b[2] * Sgn(b[1]), a[2] * Abs(b[1]) * b[3], a[3] * b[3])

\* a + b; defined on operands with the same radical (or a zero operand)
NAdd(a, b) ==
    IF IsNaN(a) \/ IsNaN(b) THEN NaN
    ELSE IF a[1] = 0 THEN b
    ELSE IF b[1] = 0 THEN a
    ELSE IF a[3] = b[3] THEN Num(a[1] * b[2] + b[1] * a[2], a[2] * b[2], a[3])
    ELSE NaN

NSub(a, b) == NAdd(a, NNeg(b))

IsSquare(n) == LET s == Isqrt(n, 0, 46340) IN s * s = n

\* sqrt(a) of a rational a = n/d: sqrt(n)/sqrt(d) when both are squares,
\* sqrt(n*d)/d otherwise; sqrt of a negative number is NaN
NSqrt(a) ==
    IF IsNaN(a) \/ a[1] < 0 \/ a[3] # 1 THEN NaN
    ELSE IF IsSquare(a[1]) /\ IsSquare(a[2])
    THEN <<Isqrt(a[1], 0, 46340), Isqrt(a[2], 0, 46340), 1>>
    ELSE Num(1, a[2], a[1] * a[2])

\* a < b, compared through the signed squares; false on NaN as in IEEE 754
NLess(a, b) ==
    /\ ~IsNaN(a)
    /\ ~IsNaN(b)
    /\ Sgn(a[1]) * a[1] * a[1] * a[3] * b[2] * b[2]
         < Sgn(b[1]) * b[1] * b[1] * b[3] * a[2] * a[2]

NEq(a, b) == ~IsNaN(a) /\ ~IsNaN(b) /\ a = b

NLeq(a, b) == NEq(a, b) \/ NLess(a, b)

NMax(a, b) == IF NLess(a, b) THEN b ELSE a

NMin(a, b) == IF NLess(b, a) THEN b ELSE a

Greatest(S) == CHOOSE a \in S : \A b \in S : NLeq(b, a)

Least(S) == CHOOSE a \in S : \A b \in S : NLeq(a, b)

Vec3(x, y, z) == <<Whole(x), Whole(y), Whole(z)>>

(***************************************************************************)
(* pyrr.vector, as the spec describes it (section 4.1)                     *)
(***************************************************************************)
RECURSIVE SumSquares(_, _)
SumSquares(vec, i) ==
    IF i = 0 THEN Whole(0) ELSE NAdd(SumSquares(vec, i - 1), NMul(vec[i], vec[i]))

vector_squared_length(vec) == SumSquares(vec, Len(vec))

vector_length(vec) == NSqrt(vector_squared_length(vec))

\* a zero-length vector divides by zero and propagates NaN
vector_normalise(vec) == [i \in DOMAIN vec |-> NDiv(vec[i], vector_length(vec))]

(***************************************************************************)
(* numpy, as aambb.py calls it.  An array of shape (N, 3) is a sequence of *)
(* rows; a box of shape (2, 3) is <<min, max>>, so Python's aabb[ 0 ] and  *)
(* aabb[ 1 ] are aabb[1] and aabb[2] here.                                 *)
(***************************************************************************)
\* numpy.empty( (2,3) ): a fresh array whose contents are not initialised
_empty == <<"uninitialised">>

numpy_absolute(values) ==
    [i \in DOMAIN values |-> [k \in DOMAIN values[i] |-> NAbs(values[i][k])]]

\* numpy.amax( values, axis = 0 ) of a non-empty array: the column maxima
RECURSIVE numpy_amax(_, _)
numpy_amax(values, i) ==
    IF i = 1 THEN values[1]
    ELSE LET m == numpy_amax(values, i - 1)
         IN  [k \in DOMAIN m |-> NMax(m[k], values[i][k])]

RECURSIVE Concat(_, _)
Concat(arrays, i) == IF i = 0 THEN <<>> ELSE Concat(arrays, i - 1) \o arrays[i]

\* numpy.vstack( tup ) takes ONE positional argument, the sequence of arrays
\* to stack; positional is the tuple of positional arguments of the call
numpy_vstack(positional) ==
    IF Len(positional) # 1
    THEN [err |-> "TypeError", ret |-> None]
    ELSE [err |-> "none", ret |-> Concat(positional[1], Len(positional[1]))]

\* aabbs.view() with shape = (-1, 3): the corners of the boxes as rows
RECURSIVE reshape_points(_, _)
reshape_points(boxes, i) ==
    IF i = 0 THEN <<>> ELSE reshape_points(boxes, i - 1) \o boxes[i]

(***************************************************************************)
(* pyrr.aambb                                                              *)
(***************************************************************************)
\* the rows create_from_points and add_points write with out[:] = ...
cube(length) ==
    << <<NNeg(length), NNeg(length), NNeg(length)>>, <<length, length, length>> >>

\* create_from_points with the sign of the minimum corner forgotten
create_from_points_unsigned(pts, out) ==
    IF pts = <<>>
    THEN [err |-> "ValueError", ret |-> None, out |-> out]
    ELSE LET length == vector_length(numpy_amax(numpy_absolute(pts), Len(pts)))
         IN  [err |-> "none", ret |-> None,
              out |-> << <<length, length, length>>, <<length, length, length>> >>]

\* create_from_points with numpy.absolute left out
create_from_points_noabs(pts, out) ==
    IF pts = <<>>
    THEN [err |-> "ValueError", ret |-> None, out |-> out]
    ELSE [err |-> "none", ret |-> None,
          out |-> cube(vector_length(numpy_amax(pts, Len(pts))))]

\* create_from_points( points, out ): the array written (the caller's, or a
\* fresh one no one else holds when out is None), and the value returned.
\* numpy.amax raises ValueError on an empty array, before anything is written;
\* the function has no return statement.
create_from_points(pts, out) ==
    IF pts = <<>>
    THEN [err |-> "ValueError", ret |-> None, out |-> out]
    ELSE LET abs_points == numpy_absolute(pts)
             vec        == numpy_amax(abs_points, Len(abs_points))
             length     == vector_length(vec)
         IN  [err |-> "none", ret |-> None, out |-> cube(length)]

\* create_from_aabbs( aabbs, out ) returns what create_from_points returns
create_from_aabbs(boxes, out) ==
    create_from_points(reshape_points(boxes, Len(boxes)), out)

\* add_points( aabb, points, out ): numpy.vstack is called with three
\* positional arguments and raises before anything is reduced or written
add_points(aabb, pts, out) ==
    LET values == numpy_vstack(<<pts, <<aabb[1]>>, <<aabb[2]>> >>)
    IN  IF values.err # "none"
        THEN [err |-> values.err, ret |-> None, out |-> out]
        ELSE LET abs_points == numpy_absolute(values.ret)
                 vec        == numpy_amax(abs_points, Len(abs_points))
                 length     == vector_length(vec)
             IN  [err |-> "none", ret |-> None, out |-> cube(length)]

\* add_aabbs( aabb, aabbs, out ) returns what add_points returns
add_aabbs(aabb, boxes, out) ==
    add_points(aabb, reshape_points(boxes, Len(boxes)), out)

\* centre_point( aabb ) = (aabb[ 0 ] + aabb[ 1 ]) * 0.5
centre_point(aabb) ==
    [k \in DOMAIN aabb[1] |-> NMul(NAdd(aabb[1][k], aabb[2][k]), Frac(1, 2))]

(***************************************************************************)
(* The caller of aambb: inputs and calls                                   *)
(***************************************************************************)
MaxPoints == 2

MaxBoxes == 1

Points ==
    { Vec3(0, 0, 0), Vec3(1, 0, 0), Vec3(0, -2, 0), Vec3(-1, 2, 0),
      Vec3(1, 1, -1), Vec3(0, 0, 3), Vec3(2, -1, 2), Vec3(-3, 0, 1) }

Boxes ==
    { <<Vec3(-1, -1, -1), Vec3(1, 1, 1)>>,
      <<Vec3(0, -2, 1), Vec3(1, 0, 2)>>,
      <<Vec3(-3, 0, 0), Vec3(-1, 1, 2)>> }

SeqsUpTo(S, n) == UNION { [1..k -> S] : k \in 0..n }

PointLists == SeqsUpTo(Points, MaxPoints)

BoxLists == SeqsUpTo(Boxes, MaxBoxes)

NoQuat == <<>>

\* the results a caller of quaternion keeps, none of them computed yet
NoResults ==
    [prod |-> None, viaProd |-> None, inner |-> None, outer |-> None,
     inv |-> None, qinv |-> None, conj |-> None, qconj |-> None,
     sqlen |-> None,
     fromEulers |-> None, fromInverse |-> None, fwdInv |-> None, invFwd |-> None]

InitAambb ==
    /\ \/ points \in PointLists /\ aabbs = <<>>
       \/ points = <<>> /\ aabbs \in BoxLists
    /\ buf = _empty
    /\ outArg = FALSE
    /\ op = "init"
    /\ args = <<>>
    /\ ret = None
    /\ err = "none"
    /\ debug = TRUE
    /\ q1 = NoQuat
    /\ q2 = NoQuat
    /\ v = <<>>
    /\ eulers = <<>>
    /\ res = NoResults

\* the effect of an aambb call on the caller: the call may have written the
\* caller's array, and the caller holds what it returned
Called(name, a, withOut, r) ==
    /\ op' = name
    /\ args' = a
    /\ outArg' = withOut
    /\ err' = r.err
    /\ ret' = r.ret
    /\ buf' = IF withOut THEN r.out ELSE buf
    /\ UNCHANGED <<points, aabbs, debug, q1, q2, v, eulers, res>>

CreateFromPoints ==
    \E withOut \in BOOLEAN :
        Called("create_from_points", <<points>>, withOut,
               create_from_points(points, IF withOut THEN buf ELSE None))

CreateFromAabbs ==
    \E withOut \in BOOLEAN :
        Called("create_from_aabbs", <<aabbs>>, withOut,
               create_from_aabbs(aabbs, IF withOut THEN buf ELSE None))

\* the caller grows the AAMBB it holds in buf
AddPoints ==
    /\ buf # _empty
    /\ \E withOut \in BOOLEAN :
        Called("add_points", <<buf, points>>, withOut,
               add_points(buf, points, IF withOut THEN buf ELSE None))

AddAabbs ==
    /\ buf # _empty
    /\ \E withOut \in BOOLEAN :
        Called("add_aabbs", <<buf, aabbs>>, withOut,
               add_aabbs(buf, aabbs, IF withOut THEN buf ELSE None))

CentrePoint ==
    /\ buf # _empty
    /\ op' = "centre_point"
    /\ outArg' = FALSE
    /\ err' = "none"
    /\ args' = <<buf>>
    /\ ret' = centre_point(buf)
    /\ UNCHANGED <<points, aabbs, buf, debug, q1, q2, v, eulers, res>>

NextAambb ==
    \/ CreateFromPoints
    \/ CreateFromAabbs
    \/ AddPoints
    \/ AddAabbs
    \/ CentrePoint

SpecAambb == InitAambb /\ [][NextAambb]_vars

(***************************************************************************)
(* math, as quaternion.py calls it.  An angle is the point <<cos, sin>> of *)
(* the unit circle it names, so that sines and cosines are exact; an angle *)
(* theta that the code halves is given as Twice(half).                     *)
(***************************************************************************)
Twice(half) == <<"twice", half>>

\* theta * 0.5
HalfOf(theta) == theta[2]

math_sin(angle) == angle[2]

math_cos(angle) == angle[1]

\* math.acos( x ) for -1 <= x <= 1: the angle in [0, pi] with cosine x
math_acos(x) == <<x, NSqrt(NSub(Whole(1), NMul(x, x)))>>

math_fabs(x) == NAbs(x)

\* angle * k for a natural number k, by the angle-sum formulas
RECURSIVE AngleTimes(_, _)
AngleTimes(angle, k) ==
    IF k = 0 THEN <<Whole(1), Whole(0)>>
    ELSE LET b == AngleTimes(angle, k - 1)
         IN  <<NSub(NMul(b[1], angle[1]), NMul(b[2], angle[2])),
               NAdd(NMul(b[2], angle[1]), NMul(b[1], angle[2]))>>

(***************************************************************************)
(* pyrr.quaternion.  A quaternion is <<x, y, z, w>>: Python's quat[ 0 ] .. *)
(* quat[ 3 ] are quat[1] .. quat[4] here.                                  *)
(***************************************************************************)
\* the names bound at module level in quaternion.py
ModuleNames ==
    { "absolute_import", "division", "print_function", "unicode_literals",
      "math", "numpy", "vector", "vector3", "vector4", "index",
      "create", "create_identity", "create_from_x_rotation",
      "create_from_y_rotation", "create_from_z_rotation",
      "create_from_axis_rotation", "create_from_eulers",
      "create_from_inverse_of_eulers", "cross", "is_zero_length",
      "is_non_zero_length", "squared_length", "length", "normalise",
      "get_rotation_angle", "get_rotation_axis", "dot", "conjugate", "power",
      "inverse", "negate", "apply_to_vector" }

\* class index: x = 0, y = 1, z = 2, w = 3, shifted to TLA+'s indices
index == [x |-> 1, y |-> 2, z |-> 3, w |-> 4]

Returns(value) == [err |-> "none", ret |-> value]

Raises(exception) == [err |-> exception, ret |-> None]

\* create_from_axis_rotation( axis, theta ).  The assert statement runs when
\* __debug__ is set; (norm - 1.0) < 0.01 is evaluated as norm < 1.0 + 0.01,
\* the same comparison, so that an irrational norm compares exactly.
create_from_axis_rotation(axis, theta, dbg) ==
    LET norm == vector_length(axis)
        thetaOver2 == HalfOf(theta)
        sinThetaOver2 == math_sin(thetaOver2)
    IN  IF dbg /\ ~NLess(norm, NAdd(Whole(1), Frac(1, 100)))
        THEN Raises("AssertionError")
        ELSE Returns(<<NMul(axis[1], sinThetaOver2),
                       NMul(axis[2], sinThetaOver2),
                       NMul(axis[3], sinThetaOver2),
                       math_cos(thetaOver2)>>)

Mul3(a, b, c) == NMul(NMul(a, b), c)

\* create_from_inverse_of_eulers with z computed as create_from_eulers does
create_from_inverse_of_eulers_z_kept(e) ==
    LET halfYaw   == HalfOf(e[1])
        sinYaw    == math_sin(halfYaw)
        cosYaw    == math_cos(halfYaw)
        halfPitch == HalfOf(e[2])
        sinPitch  == math_sin(halfPitch)
        cosPitch  == math_cos(halfPitch)
        halfRoll  == HalfOf(e[3])
        sinRoll   == math_sin(halfRoll)
        cosRoll   == math_cos(halfRoll)
    IN  << NAdd(Mul3(cosYaw, sinPitch, cosRoll), Mul3(sinYaw, cosPitch, sinRoll)),
           NAdd(Mul3(NNeg(cosYaw), sinPitch, sinRoll), Mul3(sinYaw, cosPitch, cosRoll)),
           NSub(Mul3(sinYaw, sinPitch, cosRoll), Mul3(cosYaw, cosPitch, sinRoll)),
           NAdd(Mul3(cosYaw, cosPitch, cosRoll), Mul3(sinYaw, sinPitch, sinRoll)) >>

\* create_from_eulers( eulers ), eulers = [ yaw, pitch, roll ]
create_from_eulers(e) ==
    LET halfYaw   == HalfOf(e[1])
        sinYaw    == math_sin(halfYaw)
        cosYaw    == math_cos(halfYaw)
        halfPitch == HalfOf(e[2])
        sinPitch  == math_sin(halfPitch)
        cosPitch  == math_cos(halfPitch)
        halfRoll  == HalfOf(e[3])
        sinRoll   == math_sin(halfRoll)
        cosRoll   == math_cos(halfRoll)
    IN  << NSub(Mul3(NNeg(cosYaw), sinPitch, cosRoll), Mul3(sinYaw, cosPitch, sinRoll)),
           NSub(Mul3(cosYaw, sinPitch, sinRoll), Mul3(sinYaw, cosPitch, cosRoll)),
           NSub(Mul3(sinYaw, sinPitch, cosRoll), Mul3(cosYaw, cosPitch, sinRoll)),
           NAdd(Mul3(cosYaw, cosPitch, cosRoll), Mul3(sinYaw, sinPitch, sinRoll)) >>

\* create_from_inverse_of_eulers( eulers )
create_from_inverse_of_eulers(e) ==
    LET halfYaw   == HalfOf(e[1])
        sinYaw    == math_sin(halfYaw)
        cosYaw    == math_cos(halfYaw)
        halfPitch == HalfOf(e[2])
        sinPitch  == math_sin(halfPitch)
        cosPitch  == math_cos(halfPitch)
        halfRoll  == HalfOf(e[3])
        sinRoll   == math_sin(halfRoll)
        cosRoll   == math_cos(halfRoll)
    IN  << NAdd(Mul3(cosYaw, sinPitch, cosRoll), Mul3(sinYaw, cosPitch, sinRoll)),
           NAdd(Mul3(NNeg(cosYaw), sinPitch, sinRoll), Mul3(sinYaw, cosPitch, cosRoll)),
           NAdd(Mul3(NNeg(sinYaw), sinPitch, cosRoll), Mul3(cosYaw, cosPitch, sinRoll)),
           NAdd(Mul3(cosYaw, cosPitch, cosRoll), Mul3(sinYaw, sinPitch, sinRoll)) >>

Sum4(a, b, c, d) == NAdd(NAdd(NAdd(a, b), c), d)

\* cross( quat1, quat2 ), term by term as the code writes it
cross(quat1, quat2) ==
    LET q1x == quat1[1]  q1y == quat1[2]  q1z == quat1[3]  q1w == quat1[4]
        q2x == quat2[1]  q2y == quat2[2]  q2z == quat2[3]  q2w == quat2[4]
    IN  << Sum4(NMul(q1w, q2x), NMul(q1x, q2w), NMul(q1z, q2y), NNeg(NMul(q1y, q2z))),
           Sum4(NMul(q1w, q2y), NMul(q1y, q2w), NMul(q1x, q2z), NNeg(NMul(q1z, q2x))),
           Sum4(NMul(q1w, q2z), NMul(q1z, q2w), NMul(q1y, q2x), NNeg(NMul(q1x, q2y))),
           Sum4(NMul(q1w, q2w), NNeg(NMul(q1x, q2x)), NNeg(NMul(q1y, q2y)),
                NNeg(NMul(q1z, q2z))) >>

squared_length(quat) == vector_squared_length(quat)

normalise(quat) == vector_normalise(quat)

\* get_rotation_axis( quat ).  In the branch for 1 - w^2 <= 0 the assert
\* raises when __debug__ is set; without it the branch assigns to out[:],
\* a name bound neither in the function nor in the module.
get_rotation_axis(quat, dbg) ==
    LET sinThetaOver2Sq == NSub(Whole(1), NMul(quat[4], quat[4]))
    IN  IF NLeq(sinThetaOver2Sq, Whole(0))
        THEN IF dbg THEN Raises("AssertionError")
             ELSE IF "out" \notin ModuleNames THEN Raises("NameError")
             ELSE Returns(<<Whole(0), Whole(0), Whole(-1)>>)
        ELSE LET oneOverSinThetaOver2 == NDiv(Whole(1), NSqrt(sinThetaOver2Sq))
             IN  Returns(<<NMul(quat[1], oneOverSinThetaOver2),
                           NMul(quat[2], oneOverSinThetaOver2),
                           NMul(quat[3], oneOverSinThetaOver2)>>)

conjugate(quat) == <<NNeg(quat[1]), NNeg(quat[2]), NNeg(quat[3]), quat[4]>>

\* power( quat, exponent ), for a natural exponent.  The first statement
\* reads quat[ w ]: w is bound neither in the function nor in the module
\* (the index of w is index.w), so the call raises NameError there.
power(quat, exponent, dbg) ==
    IF "w" \notin ModuleNames THEN Raises("NameError")
    ELSE IF NLess(Frac(9999, 10000), math_fabs(quat[index.w]))
    THEN IF dbg THEN Raises("AssertionError")
         ELSE IF "out" \notin ModuleNames THEN Raises("NameError")
         ELSE Returns(quat)
    ELSE LET alpha    == math_acos(quat[index.w])
             newAlpha == AngleTimes(alpha, exponent)
             multi    == NDiv(math_sin(newAlpha), math_sin(alpha))
         IN  Returns(<<NMul(quat[index.x], multi),
                       NMul(quat[index.y], multi),
                       NMul(quat[index.z], multi),
                       math_cos(newAlpha)>>)

\* inverse with the division by the squared length left out
inverse_undivided(quat) == conjugate(quat)

\* inverse( quat ) = conjugate( quat ) / squared_length( quat )
inverse(quat) ==
    [i \in DOMAIN quat |-> NDiv(conjugate(quat)[i], squared_length(quat))]

\* apply with the quaternion and its conjugate on the wrong sides
apply_conjugate_first(quat, vec3) ==
    LET length   == vector_length(vec3)
        unit     == vector_normalise(vec3)
        vec_quat == <<unit[1], unit[2], unit[3], Whole(0)>>
        result   == cross(conjugate(quat), cross(vec_quat, quat))
    IN  <<NMul(result[1], length), NMul(result[2], length), NMul(result[3], length)>>

\* the inner function apply of apply_to_vector
apply(quat, vec3) ==
    LET length   == vector_length(vec3)
        unit     == vector_normalise(vec3)
        vec_quat == <<unit[1], unit[2], unit[3], Whole(0)>>
        result   == cross(quat, cross(vec_quat, conjugate(quat)))
    IN  <<NMul(result[1], length), NMul(result[2], length), NMul(result[3], length)>>

\* vector3.create_from_vector4 and vector4.create_from_vector3
vector3_create_from_vector4(vec) == <<vec[1], vec[2], vec[3]>>

vector4_create_from_vector3(vec3) == <<vec3[1], vec3[2], vec3[3], Whole(0)>>

\* apply_to_vector( quat, vec )
apply_to_vector(quat, vec) ==
    IF Len(vec) = 3 THEN Returns(apply(quat, vec))
    ELSE IF Len(vec) = 4
    THEN Returns(vector4_create_from_vector3(
                     apply(quat, vector3_create_from_vector4(vec))))
    ELSE Raises("ValueError")

(***************************************************************************)
(* The caller of quaternion: inputs                                        *)
(***************************************************************************)
MaxExponent == 2

Quat(x, y, z, w) == <<Whole(x), Whole(y), Whole(z), Whole(w)>>

\* unit quaternions: integer quaternions, normalised
UnitQuats ==
    { normalise(q) :
        q \in { Quat(0, 0, 0, 1), Quat(1, 0, 0, 0), Quat(0, 1, 0, 0),
                Quat(0, 0, 1, 0), Quat(1, 1, 1, 1), Quat(3, 0, 0, 4),
                Quat(0, 1, 0, 1), Quat(1, -2, 0, 2), Quat(1, 0, -1, 1) } }

Quats ==
    UnitQuats \cup
    { Quat(0, 0, 0, 0), Quat(0, 0, 0, -1), Quat(0, 0, 0, 2), Quat(1, 2, 0, 1),
      Quat(0, 0, 2, 0), Quat(1, -1, 1, 2),
      <<Frac(1, 2), Whole(0), Whole(0), Frac(-1, 3)>> }

Vecs ==
    { Vec3(0, 0, 0), Vec3(1, 0, 0), Vec3(0, -3, 4), Vec3(1, 1, 0), Vec3(2, -1, 1) }

Axes ==
    { Vec3(0, 0, 0), Vec3(1, 0, 0), Vec3(0, 0, -1), Vec3(0, 0, 2), Vec3(1, 1, 0),
      <<Frac(1, 2), Whole(0), Whole(0)>>,
      <<Frac(3, 5), Frac(4, 5), Whole(0)>>,
      <<Frac(1, 2), Frac(1, 2), Frac(1, 2)>>,
      <<Whole(0), Frac(9, 10), Whole(0)>>,
      <<Whole(0), Frac(199, 200), Whole(0)>>,
      <<Whole(0), Frac(201, 200), Whole(0)>>,
      <<Whole(0), Frac(101, 100), Whole(0)>>,
      <<Whole(0), Whole(0), Frac(11, 10)>> }

\* theta = 0, pi, 2*atan(3/4), pi/2
Thetas ==
    { Twice(<<Whole(1), Whole(0)>>), Twice(<<Whole(0), Whole(1)>>),
      Twice(<<Frac(4, 5), Frac(3, 5)>>),
      Twice(<<Num(1, 2, 2), Num(1, 2, 2)>>) }

Exponents == 0..MaxExponent

(***************************************************************************)
(* Single calls of quaternion functions on any input                       *)
(***************************************************************************)
InitQuat ==
    /\ points = <<>>
    /\ aabbs = <<>>
    /\ buf = _empty
    /\ outArg = FALSE
    /\ op = "init"
    /\ args = <<>>
    /\ ret = None
    /\ err = "none"
    /\ debug \in BOOLEAN
    /\ q1 = NoQuat
    /\ q2 = NoQuat
    /\ v = <<>>
    /\ eulers = <<>>
    /\ res = NoResults

Call(name, a, r) ==
    /\ op' = name
    /\ args' = a
    /\ ret' = r.ret
    /\ err' = r.err
    /\ UNCHANGED <<points, aabbs, buf, outArg, debug, q1, q2, v, eulers, res>>

CreateFromAxisRotation ==
    \E axis \in Axes, theta \in Thetas :
        Call("create_from_axis_rotation", <<axis, theta>>,
             create_from_axis_rotation(axis, theta, debug))

Cross ==
    \E a \in Quats, b \in Quats : Call("cross", <<a, b>>, Returns(cross(a, b)))

GetRotationAxis ==
    \E q \in Quats : Call("get_rotation_axis", <<q>>, get_rotation_axis(q, debug))

Conjugate ==
    \E q \in Quats : Call("conjugate", <<q>>, Returns(conjugate(q)))

Power ==
    \E q \in Quats, exponent \in Exponents :
        Call("power", <<q, exponent>>, power(q, exponent, debug))

Inverse ==
    \E q \in Quats : Call("inverse", <<q>>, Returns(inverse(q)))

NextQuat ==
    \/ CreateFromAxisRotation
    \/ Cross
    \/ GetRotationAxis
    \/ Conjugate
    \/ Power
    \/ Inverse

SpecQuat == InitQuat /\ [][NextQuat]_vars

(***************************************************************************)
(* A caller that keeps results and passes them on to further calls         *)
(***************************************************************************)
Kept(name, field, a, r) ==
    /\ op' = name
    /\ args' = a
    /\ ret' = r.ret
    /\ err' = r.err
    /\ res' = [res EXCEPT ![field] = r.ret]
    /\ UNCHANGED <<points, aabbs, buf, outArg, debug, q1, q2, v, eulers>>

InitCaller ==
    /\ points = <<>>
    /\ aabbs = <<>>
    /\ buf = _empty
    /\ outArg = FALSE
    /\ op = "init"
    /\ args = <<>>
    /\ ret = None
    /\ err = "none"
    /\ debug = TRUE
    /\ res = NoResults

\* inverse and conjugate of q1, and their products with q1
InitInverse ==
    /\ InitCaller
    /\ q1 \in Quats
    /\ q2 = NoQuat
    /\ v = <<>>
    /\ eulers = <<>>

InverseQ1 == Kept("inverse", "inv", <<q1>>, Returns(inverse(q1)))

CrossInverse ==
    /\ res.inv # None
    /\ Kept("cross", "qinv", <<q1, res.inv>>, Returns(cross(q1, res.inv)))

ConjugateQ1 == Kept("conjugate", "conj", <<q1>>, Returns(conjugate(q1)))

CrossConjugate ==
    /\ res.conj # None
    /\ Kept("cross", "qconj", <<q1, res.conj>>, Returns(cross(q1, res.conj)))

SquaredLengthQ1 ==
    Kept("squared_length", "sqlen", <<q1>>, Returns(squared_length(q1)))

NextInverse ==
    \/ InverseQ1
    \/ CrossInverse
    \/ ConjugateQ1
    \/ CrossConjugate
    \/ SquaredLengthQ1

SpecInverse == InitInverse /\ [][NextInverse]_vars

\* rotating v by the product of q1 and q2, and by q2 and then q1
InitRotate ==
    /\ InitCaller
    /\ q1 \in UnitQuats
    /\ q2 \in UnitQuats
    /\ v \in Vecs
    /\ eulers = <<>>

CrossQ1Q2 == Kept("cross", "prod", <<q1, q2>>, Returns(cross(q1, q2)))

ApplyProduct ==
    /\ res.prod # None
    /\ Kept("apply_to_vector", "viaProd", <<res.prod, v>>,
            apply_to_vector(res.prod, v))

ApplyQ2 == Kept("apply_to_vector", "inner", <<q2, v>>, apply_to_vector(q2, v))

ApplyQ1 ==
    /\ res.inner # None
    /\ Kept("apply_to_vector", "outer", <<q1, res.inner>>,
            apply_to_vector(q1, res.inner))

NextRotate ==
    \/ CrossQ1Q2
    \/ ApplyProduct
    \/ ApplyQ2
    \/ ApplyQ1

SpecRotate == InitRotate /\ [][NextRotate]_vars

\* half angles, as <<cos, sin>>: 0, pi/2, pi, -pi/2, atan(3/4), atan(4/3),
\* -atan(4/3), pi - atan(3/4), pi/4 and 3*pi/4
HalfAngles ==
    { <<Whole(1), Whole(0)>>, <<Whole(0), Whole(1)>>, <<Whole(-1), Whole(0)>>,
      <<Whole(0), Whole(-1)>>, <<Frac(4, 5), Frac(3, 5)>>,
      <<Frac(3, 5), Frac(4, 5)>>, <<Frac(3, 5), Frac(-4, 5)>>,
      <<Frac(-4, 5), Frac(3, 5)>>, <<Num(1, 2, 2), Num(1, 2, 2)>>,
      <<Num(-1, 2, 2), Num(1, 2, 2)>> }

EulerAngles == { Twice(half) : half \in HalfAngles }

\* the quaternion of a set of Euler angles, the quaternion of their inverse,
\* and the products of the two
InitEulers ==
    /\ InitCaller
    /\ q1 = NoQuat
    /\ q2 = NoQuat
    /\ v = <<>>
    /\ eulers \in [1..3 -> EulerAngles]

CreateFromEulers ==
    Kept("create_from_eulers", "fromEulers", <<eulers>>,
         Returns(create_from_eulers(eulers)))

CreateFromInverseOfEulers ==
    Kept("create_from_inverse_of_eulers", "fromInverse", <<eulers>>,
         Returns(create_from_inverse_of_eulers(eulers)))

CrossEulersInverse ==
    /\ res.fromEulers # None
    /\ res.fromInverse # None
    /\ Kept("cross", "fwdInv", <<res.fromEulers, res.fromInverse>>,
            Returns(cross(res.fromEulers, res.fromInverse)))

CrossInverseEulers ==
    /\ res.fromEulers # None
    /\ res.fromInverse # None
    /\ Kept("cross", "invFwd", <<res.fromInverse, res.fromEulers>>,
            Returns(cross(res.fromInverse, res.fromEulers)))

NextEulers ==
    \/ CreateFromEulers
    \/ CreateFromInverseOfEulers
    \/ CrossEulersInverse
    \/ CrossInverseEulers

SpecEulers == InitEulers /\ [][NextEulers]_vars

(***************************************************************************)
(* Claims about pyrr.aambb, checked under SpecAambb                        *)
(***************************************************************************)
Perms3 == { f \in [1..3 -> 1..3] : \A i, j \in 1..3 : f[i] = f[j] => i = j }

Signs3 == [1..3 -> {-1, 1}]

\* images of p under rotations about the origin: the signed permutations of
\* its coordinates, and the six points at p's distance on the axes
Rotated(p) ==
    { [k \in 1..3 |-> IF s[k] = 1 THEN p[f[k]] ELSE NNeg(p[f[k]])] :
        f \in Perms3, s \in Signs3 }
    \cup
    { [k \in 1..3 |-> IF k # a THEN Whole(0)
                      ELSE IF sg = 1 THEN vector_length(p)
                      ELSE NNeg(vector_length(p))] :
        a \in 1..3, sg \in {-1, 1} }

Inside(box, q) ==
    \A k \in 1..3 : NLeq(box[1][k], q[k]) /\ NLeq(q[k], box[2][k])

\* C1: after create_from_points( points, out ) every point at the distance
\* from the origin of some input point lies inside the box written:
\* -r <= q_i <= r on every axis.
C1_Containment ==
    (op = "create_from_points" /\ err = "none" /\ outArg) =>
        \A i \in DOMAIN points : \A q \in Rotated(points[i]) : Inside(buf, q)

\* two points with negative coordinates, bounded by the cube of half-extent
\* 2*sqrt(3)
C1_Witness ==
    /\ op = "create_from_points"
    /\ err = "none"
    /\ outArg
    /\ points = <<Vec3(-1, 2, 0), Vec3(2, -1, 2)>>
    /\ buf = cube(<<2, 1, 3>>)

Symmetric(box) ==
    \A k \in 1..3 :
        /\ NEq(box[1][k], NNeg(box[2][k]))
        /\ NEq(NAbs(box[1][k]), NAbs(box[2][1]))
        /\ NEq(NAbs(box[2][k]), NAbs(box[2][1]))

\* C2: every box a construction or growth call has written is symmetric
\* about the origin (min = -max, six components of one magnitude), and
\* centre_point of it is exactly (0, 0, 0).
C2_Symmetric ==
    /\ buf # _empty => Symmetric(buf)
    /\ op = "centre_point" => ret = Vec3(0, 0, 0)

C2_Witness ==
    /\ op = "centre_point"
    /\ args[1] = cube(<<1, 1, 14>>)
    /\ ret = Vec3(0, 0, 0)

\* C3 (as claimed): add_points / add_aabbs reduce over the new points and the
\* box's own corners and produce a half-extent no smaller than the old one.
C3_GrowthNeverShrinks ==
    op \in {"add_points", "add_aabbs"} =>
        /\ err = "none"
        /\ outArg => NLeq(args[1][2][1], buf[2][1])

\* C4 (as claimed): without an output buffer the constructed AAMBB is the
\* returned value; with one, it is written into the buffer.
C4_ReturnedOrWritten ==
    (op = "create_from_points" /\ err = "none") =>
        IF outArg
        THEN buf = create_from_points(points, buf).out
        ELSE ret = create_from_points(points, None).out

\* C12 (as claimed): the half-extent of the box create_from_points writes is
\* the greatest distance from the origin of any single input point,
\* r = max over p in points of length( p ).
C12_HalfExtentIsMaxDistance ==
    (op = "create_from_points" /\ err = "none" /\ outArg) =>
        buf = cube(Greatest({ vector_length(points[i]) : i \in DOMAIN points }))

(***************************************************************************)
(* Claims about pyrr.quaternion                                            *)
(***************************************************************************)
\* the Hamilton product quat1 * quat2
hamilton(quat1, quat2) ==
    LET q1x == quat1[1]  q1y == quat1[2]  q1z == quat1[3]  q1w == quat1[4]
        q2x == quat2[1]  q2y == quat2[2]  q2z == quat2[3]  q2w == quat2[4]
    IN  << Sum4(NMul(q1w, q2x), NMul(q1x, q2w), NMul(q1y, q2z), NNeg(NMul(q1z, q2y))),
           Sum4(NMul(q1w, q2y), NMul(q1y, q2w), NMul(q1z, q2x), NNeg(NMul(q1x, q2z))),
           Sum4(NMul(q1w, q2z), NMul(q1z, q2w), NMul(q1x, q2y), NNeg(NMul(q1y, q2x))),
           Sum4(NMul(q1w, q2w), NNeg(NMul(q1x, q2x)), NNeg(NMul(q1y, q2y)),
                NNeg(NMul(q1z, q2z))) >>

\* C5 (as claimed), under SpecQuat: cross( q1, q2 ) is the Hamilton product
\* q1*q2, x = w1*x2 + x1*w2 + y1*z2 - z1*y2 and so on, so cross(i, j) = k.
C5_HamiltonProduct ==
    op = "cross" => ret = hamilton(args[1], args[2])

VecEq(a, b) == \A k \in DOMAIN a : NEq(a[k], b[k])

\* C6, under SpecRotate: for unit quaternions q1, q2 and a non-zero vector v,
\* rotating v by cross( q1, q2 ) gives what rotating it by q2 and then by q1
\* gives.
C6_Composition ==
    (res.viaProd # None /\ res.outer # None /\ v # Vec3(0, 0, 0)) =>
        VecEq(res.viaProd, res.outer)

\* two rotations that do not commute: the other order gives another vector
C6_Witness ==
    /\ q1 = normalise(Quat(1, 1, 1, 1))
    /\ q2 = normalise(Quat(3, 0, 0, 4))
    /\ v = Vec3(2, -1, 1)
    /\ res.viaProd # None
    /\ res.outer # None
    /\ VecEq(res.viaProd, res.outer)
    /\ ~VecEq(res.outer, apply(q2, apply(q1, v)))

Identity == Quat(0, 0, 0, 1)

WithinTolerance(axis) ==
    /\ NLeq(NSub(Whole(1), Frac(1, 100)), vector_length(axis))
    /\ NLeq(vector_length(axis), NAdd(Whole(1), Frac(1, 100)))

\* C8 (as claimed), under SpecQuat: create_from_axis_rotation fails on every
\* axis whose length is not within 0.01 of 1.0, too short or too long.
C8_RejectsNonUnitAxis ==
    (debug /\ op = "create_from_axis_rotation" /\ ~WithinTolerance(args[1])) =>
        err = "AssertionError"

\* C9 (as claimed), under SpecQuat: get_rotation_axis returns (0, 0, -1) when
\* 1 - w^2 <= 0 and (x, y, z) / sqrt(1 - w^2) otherwise, and does not fail.
C9_DefaultAxis ==
    op = "get_rotation_axis" =>
        LET q == args[1]
            s == NSub(Whole(1), NMul(q[4], q[4]))
        IN  /\ err = "none"
            /\ ret = IF NLeq(s, Whole(0)) THEN Vec3(0, 0, -1)
                     ELSE <<NDiv(q[1], NSqrt(s)), NDiv(q[2], NSqrt(s)),
                            NDiv(q[3], NSqrt(s))>>

IsUnit(q) == squared_length(q) = Whole(1)

\* C10 (as claimed), under SpecQuat: power returns q itself when
\* |w| > 0.9999, and (x*m, y*m, z*m, cos(alpha*exponent)) with
\* alpha = acos(w), m = sin(alpha*exponent)/sin(alpha) for any other unit
\* quaternion; it fails in neither case.
C10_Power ==
    (op = "power" /\ IsUnit(args[1])) =>
        LET q        == args[1]
            alpha    == math_acos(q[4])
            newAlpha == AngleTimes(alpha, args[2])
            m        == NDiv(math_sin(newAlpha), math_sin(alpha))
        IN  /\ err = "none"
            /\ ret = IF NLess(Frac(9999, 10000), NAbs(q[4])) THEN q
                     ELSE <<NMul(q[1], m), NMul(q[2], m), NMul(q[3], m),
                            math_cos(newAlpha)>>

\* sin^2 + cos^2 = 1 for the half of the angle
OnUnitCircle(angle) ==
    LET half == HalfOf(angle)
    IN  NAdd(NMul(math_sin(half), math_sin(half)),
             NMul(math_cos(half), math_cos(half))) = Whole(1)

\* C13, under SpecEulers: for Euler angles [ yaw, pitch, roll ] whose half
\* angles have sin^2 + cos^2 = 1, create_from_inverse_of_eulers returns the
\* conjugate of what create_from_eulers returns (the same w, and x, y, z
\* negated), and cross of the two, in either order, is the identity
\* quaternion.
C13_InverseOfEulers ==
    (\A i \in 1..3 : OnUnitCircle(eulers[i])) =>
        /\ (res.fromEulers # None /\ res.fromInverse # None) =>
               /\ res.fromInverse[index.w] = res.fromEulers[index.w]
               /\ \A k \in {index.x, index.y, index.z} :
                      res.fromInverse[k] = NNeg(res.fromEulers[k])
               /\ res.fromInverse = conjugate(res.fromEulers)
        /\ res.fwdInv # None => VecEq(res.fwdInv, Identity)
        /\ res.invFwd # None => VecEq(res.invFwd, Identity)

\* yaw = 2*atan(3/4), pitch = 2*atan(4/3), roll = 2*atan(3/4): a quaternion
\* with no zero component
C13_Witness ==
    /\ eulers = << Twice(<<Frac(4, 5), Frac(3, 5)>>),
                   Twice(<<Frac(3, 5), Frac(4, 5)>>),
                   Twice(<<Frac(4, 5), Frac(3, 5)>>) >>
    /\ res.fromEulers = <<Frac(-91, 125), Frac(12, 125), Frac(12, 125), Frac(84, 125)>>
    /\ res.fromInverse = <<Frac(91, 125), Frac(-12, 125), Frac(-12, 125), Frac(84, 125)>>
    /\ res.fwdInv = Identity
    /\ res.invFwd = Identity

(***************************************************************************)
(* pyrr.ray.  A ray is <<origin, direction>>: Python's ray[ 0 ] and        *)
(* ray[ 1 ] are ray[1] and ray[2] here.                                    *)
(***************************************************************************)
\* create_ray( start, direction ) normalises the direction
create_ray(start, direction) == <<start, vector_normalise(direction)>>

\* origin( ray ) and direction( ray )
ray_origin(ray) == ray[1]

ray_direction(ray) == ray[2]

(***************************************************************************)
(* pyrr.geometric_tests.ray_intersect_aabb, as the spec describes it       *)
(* (section 4.5), for a ray whose direction is not the zero vector.  "No   *)
(* intersection" is None.                                                  *)
(***************************************************************************)
\* origin + t * direction
PointAt(ray, t) ==
    [k \in 1..3 |-> NAdd(ray_origin(ray)[k], NMul(t, ray_direction(ray)[k]))]

\* the axes along which the ray does not move
ParallelAxes(ray) == { k \in 1..3 : ray_direction(ray)[k] = Whole(0) }

\* the origin lies outside the slab of axis k
OutsideSlab(ray, aabb, k) ==
    \/ NLess(ray_origin(ray)[k], aabb[1][k])
    \/ NLess(aabb[2][k], ray_origin(ray)[k])

\* t = (bound - origin) / direction_component
SlabT(ray, bound, k) ==
    NDiv(NSub(bound[k], ray_origin(ray)[k]), ray_direction(ray)[k])

\* the slab method returning the entry point whatever the sign of t_enter
ray_intersect_aabb_entry_only(ray, aabb) ==
    LET axes    == (1..3) \ ParallelAxes(ray)
        t_enter == Greatest({ NMin(SlabT(ray, aabb[1], k), SlabT(ray, aabb[2], k)) :
                              k \in axes })
        t_exit  == Least({ NMax(SlabT(ray, aabb[1], k), SlabT(ray, aabb[2], k)) :
                           k \in axes })
    IN  IF \E k \in ParallelAxes(ray) : OutsideSlab(ray, aabb, k)
        THEN Returns(None)
        ELSE IF NLess(t_exit, t_enter) \/ NLess(t_exit, Whole(0))
        THEN Returns(None)
        ELSE Returns(PointAt(ray, t_enter))

\* ray_intersect_aabb( ray, aabb ): the per-axis intervals of the axes the
\* ray moves along are intersected into [t_enter, t_exit]
ray_intersect_aabb(ray, aabb) ==
    LET axes    == (1..3) \ ParallelAxes(ray)
        t_enter == Greatest({ NMin(SlabT(ray, aabb[1], k), SlabT(ray, aabb[2], k)) :
                              k \in axes })
        t_exit  == Least({ NMax(SlabT(ray, aabb[1], k), SlabT(ray, aabb[2], k)) :
                           k \in axes })
    IN  IF \E k \in ParallelAxes(ray) : OutsideSlab(ray, aabb, k)
        THEN Returns(None)
        ELSE IF NLess(t_exit, t_enter) \/ NLess(t_exit, Whole(0))
        THEN Returns(None)
        ELSE IF NLess(t_enter, Whole(0))
        THEN Returns(PointAt(ray, t_exit))
        ELSE Returns(PointAt(ray, t_enter))

(***************************************************************************)
(* The caller of ray_intersect_aabb: rays built by create_ray or written   *)
(* out as arrays, as test_ray_intersect_aabb writes them                   *)
(***************************************************************************)
RayOrigins ==
    { <<Frac(1, 2), Frac(1, 2), Whole(0)>>, Vec3(2, 2, 2), Vec3(0, 0, 0),
      Vec3(3, 0, 0), Vec3(0, 0, -2), Vec3(1, 1, 1),
      <<Whole(-2), Frac(1, 2), Whole(0)>>, Vec3(0, 2, 0) }

RayDirections ==
    { Vec3(0, 0, -1), Vec3(-1, -1, -1), Vec3(1, 0, 0), Vec3(-1, 0, 0),
      Vec3(0, 1, 1), Vec3(1, 2, 0), Vec3(0, 0, 1), Vec3(-1, 1, 0) }

Rays ==
    { <<o, d>> : o \in RayOrigins, d \in RayDirections }
    \cup { create_ray(o, d) : o \in RayOrigins, d \in RayDirections }

InitRay ==
    /\ InitCaller
    /\ q1 = NoQuat
    /\ q2 = NoQuat
    /\ v = <<>>
    /\ eulers = <<>>

CreateRay ==
    \E o \in RayOrigins, d \in RayDirections :
        Call("create_ray", <<o, d>>, Returns(create_ray(o, d)))

RayIntersectAabb ==
    \E ray \in Rays, aabb \in Boxes :
        Call("ray_intersect_aabb", <<ray, aabb>>, ray_intersect_aabb(ray, aabb))

NextRay ==
    \/ CreateRay
    \/ RayIntersectAabb

SpecRay == InitRay /\ [][NextRay]_vars

(***************************************************************************)
(* Claims about ray_intersect_aabb, checked under SpecRay                  *)
(***************************************************************************)
\* the parameters at which the line of the ray crosses a plane of the box
\* and is, there, in the closed box: when the line meets the box these
\* include the two ends of the stretch it spends inside
BoxCrossings(ray, aabb) ==
    { t \in { SlabT(ray, aabb[i], k) :
              i \in 1..2, k \in (1..3) \ ParallelAxes(ray) } :
        Inside(aabb, PointAt(ray, t)) }

\* the two rays of test_ray_intersect_aabb and the points it expects
TestBox == <<Vec3(-1, -1, -1), Vec3(1, 1, 1)>>

TestRay1 == << <<Frac(1, 2), Frac(1, 2), Whole(0)>>, Vec3(0, 0, -1) >>

TestRay2 == << Vec3(2, 2, 2), Vec3(-1, -1, -1) >>

\* C11, under SpecRay: ray_intersect_aabb reports no intersection when the
\* ray is parallel to a slab pair with its origin outside that slab, when
\* its line misses the box (t_enter > t_exit) and when the box lies behind
\* the origin (t_exit < 0); otherwise it returns the point where the ray
\* leaves the box when the origin is inside (t_enter < 0) and the point where
\* it enters when the origin is outside.  t_enter and t_exit are taken from
\* the geometry: the least and the greatest parameter at which the line is on
\* a plane of the box and in the box.
C11_SlabMethod ==
    op = "ray_intersect_aabb" =>
        LET ray  == args[1]
            aabb == args[2]
            ts   == BoxCrossings(ray, aabb)
        IN  /\ err = "none"
            /\ (\E k \in ParallelAxes(ray) : OutsideSlab(ray, aabb, k)) => ret = None
            /\ ret = IF ts = {} \/ NLess(Greatest(ts), Whole(0)) THEN None
                     ELSE IF NLess(Least(ts), Whole(0)) THEN PointAt(ray, Greatest(ts))
                     ELSE PointAt(ray, Least(ts))
            /\ (ret # None /\ ~Inside(aabb, ray_origin(ray))) =>
                   ret = PointAt(ray, Least(ts))
            /\ (ray = TestRay1 /\ aabb = TestBox) =>
                   ret = <<Frac(1, 2), Frac(1, 2), Whole(-1)>>
            /\ (ray = TestRay2 /\ aabb = TestBox) => ret = Vec3(1, 1, 1)

\* a ray starting inside the box: the exit point, not the entry point
\* (0.5, 0.5, 1) behind the origin
C11_Witness ==
    /\ op = "ray_intersect_aabb"
    /\ args = <<TestRay1, TestBox>>
    /\ ret = <<Frac(1, 2), Frac(1, 2), Whole(-1)>>
    /\ ret # ray_intersect_aabb_entry_only(TestRay1, TestBox).ret

====
